---- MODULE Spec2Model ----
(***************************************************************************)
(* A model of the orchestration core of AssFontSubset_GUI (src/main.py):   *)
(* path cleaning, the port sidecar file, the configuration file, the       *)
(* assembly of the external command line and the launcher's port search.   *)
(*                                                                         *)
(* Conventions.                                                            *)
(*  - A Python str is a sequence of one-character strings, except that a   *)
(*    run of ordinary path characters may be written as a single atom      *)
(*    ("/fonts"); an atom never begins or ends with whitespace or a quote. *)
(*  - A Python value is a tagged record (PyStr, PyInt, PyBool, PyNone,     *)
(*    PyList); a (bool, value) tuple of the source is a pair <<b, v>>.     *)
(*  - Files are reliable: open/read/write raise only when the path is      *)
(*    missing.  The ports bound by other listeners do not change during    *)
(*    one run of safe_launch, and demo.launch on a free port returns.      *)
(***************************************************************************)
EXTENDS Integers, Sequences, FiniteSets, TLC

VARIABLES
    \* ---- port sidecar and launcher ----
    portFile,        \* content of PORT_FILE_PATH
    initPortFile,    \* its content when the model starts (history)
    pc,              \* position of main(): "init", "attempt", "launched", "share", "exit1"
    preferred_port,  \* safe_launch: preferred_port
    max_attempts,    \* safe_launch: max_attempts
    attempt,         \* safe_launch: loop variable
    bound,           \* ports held by other listeners during this run
    probes,          \* ports handed to s.bind so far in this run (history)
    launched,        \* server_port of each demo.launch(server_port=...) of this run
    share,           \* demo.launch(share=True) was called in this run
    result,          \* what safe_launch returned or raised
    fileAtStart,     \* portFile when this run of safe_launch began (history)
    runs,            \* number of runs of main() so far
    call,            \* the last registry operation and what it returned (history)
    \* ---- pure functions, configuration file, command line ----
    phase,           \* which component the remaining variables describe
    arg,             \* the input of the last operation
    out,             \* the output of the last operation
    configFile,      \* the configuration file: its path and content
    savedDoc         \* the document save_config last wrote there (history)

portVars == <<portFile, initPortFile, pc, preferred_port, max_attempts, attempt,
              bound, probes, launched, share, result, fileAtStart, runs, call>>
opVars   == <<phase, arg, out, configFile, savedDoc>>
vars     == <<portVars, opVars>>

\* ------------------------------------------------------------------ bounds
MaxAttempts == 3     \* largest max_attempts handed to safe_launch
MaxRuns     == 2     \* runs of main() in one behaviour
MaxLen      == 4     \* longest string handed to clean_path
MaxInputs   == 2     \* longest input_paths list
MaxMembers  == 2     \* most members of a JSON object in a hand-written config file

\* ------------------------------------------------------------ Python values
PyNone     == [none |-> TRUE]
PyInt(n)   == [int |-> n]
PyStr(s)   == [str |-> s]
PyBool(b)  == [bool |-> b]
PyList(l)  == [list |-> l]
IsNone(v)  == "none" \in DOMAIN v
IsInt(v)   == "int" \in DOMAIN v
IsStr(v)   == "str" \in DOMAIN v
IsBool(v)  == "bool" \in DOMAIN v
IsList(v)  == "list" \in DOMAIN v
PyDict(f)  == [dict |-> f]
IsDict(v)  == "dict" \in DOMAIN v
Raised(e)  == [raised |-> e]
IsRaised(v) == "raised" \in DOMAIN v

\* bool(v): Python truthiness.
Truthy(v) ==
    IF IsNone(v) THEN FALSE
    ELSE IF IsBool(v) THEN v.bool
    ELSE IF IsInt(v) THEN v.int # 0
    ELSE IF IsStr(v) THEN v.str # <<>>
    ELSE IF IsList(v) THEN v.list # <<>>
    ELSE TRUE

\* ------------------------------------------------------------ characters
Whitespace == {" ", "\n"}
Quotes     == {"'", "\""}
Digits     == {"0", "1", "2", "3", "4", "5", "6", "7", "8", "9"}

DigitChar(d) ==
    CASE d = 0 -> "0" [] d = 1 -> "1" [] d = 2 -> "2" [] d = 3 -> "3" [] d = 4 -> "4"
      [] d = 5 -> "5" [] d = 6 -> "6" [] d = 7 -> "7" [] d = 8 -> "8" [] d = 9 -> "9"

DigitVal(c) == CHOOSE d \in 0..9 : DigitChar(d) = c

\* str.strip(): drop leading and trailing whitespace.
RECURSIVE LStrip(_)
LStrip(s) == IF s # <<>> /\ Head(s) \in Whitespace THEN LStrip(Tail(s)) ELSE s

RECURSIVE RStrip(_)
RStrip(s) ==
    IF s # <<>> /\ s[Len(s)] \in Whitespace THEN RStrip(SubSeq(s, 1, Len(s) - 1)) ELSE s

Strip(s) == RStrip(LStrip(s))

\* str(n) of a Python int: the decimal digits, "-" first when negative.
RECURSIVE NatToStr(_)
NatToStr(n) == IF n < 10 THEN <<DigitChar(n)>> ELSE Append(NatToStr(n \div 10), DigitChar(n % 10))

IntToStr(n) == IF n < 0 THEN <<"-">> \o NatToStr(0 - n) ELSE NatToStr(n)

\* The digit groups int() accepts: digits, single underscores between digits.
RECURSIVE DigitsOk(_, _)
DigitsOk(s, afterDigit) ==
    IF s = <<>> THEN afterDigit
    ELSE IF Head(s) \in Digits THEN DigitsOk(Tail(s), TRUE)
    ELSE IF Head(s) = "_" THEN afterDigit /\ Tail(s) # <<>> /\ Tail(s)[1] \in Digits
                                /\ DigitsOk(Tail(s), FALSE)
    ELSE FALSE

RECURSIVE DigitsVal(_, _)
DigitsVal(s, acc) ==
    IF s = <<>> THEN acc
    ELSE IF Head(s) = "_" THEN DigitsVal(Tail(s), acc)
    ELSE DigitsVal(Tail(s), 10 * acc + DigitVal(Head(s)))

\* int(text): <<TRUE, n>>, or <<FALSE, 0>> where Python raises ValueError.
ParseInt(text) ==
    LET s    == Strip(text)
        sign == s # <<>> /\ Head(s) \in {"+", "-"}
        body == IF sign THEN Tail(s) ELSE s
    IN  IF body # <<>> /\ DigitsOk(body, FALSE)
        THEN <<TRUE, IF sign /\ Head(s) = "-" THEN 0 - DigitsVal(body, 0) ELSE DigitsVal(body, 0)>>
        ELSE <<FALSE, 0>>

\* str(v) of a Python value handed to save_port_to_file.
ToStr(v) ==
    IF IsInt(v) THEN IntToStr(v.int)
    ELSE IF IsStr(v) THEN v.str
    ELSE <<"N", "o", "n", "e">>

\* --------------------------------------------------------------- port registry
DEFAULT_PORT == 7888
PortMin == 1024
PortMax == 65535

NoFile     == [absent |-> TRUE]
File(text) == [text |-> text]
Exists(f)  == "text" \in DOMAIN f

\* validate_port with the upper limit off by one.
validate_port_UpperOffByOne(port_str) ==
    LET parsed == ParseInt(port_str)
    IN  IF parsed[1] /\ PortMin <= parsed[2] /\ parsed[2] <= PortMax + 1
        THEN <<TRUE, PyInt(parsed[2])>>
        ELSE <<FALSE, PyNone>>

\* validate_port(port_str) -> (bool, Optional[int])
validate_port(port_str) ==
    LET parsed == ParseInt(port_str)
    IN  IF parsed[1]
        THEN IF PortMin <= parsed[2] /\ parsed[2] <= PortMax
             THEN <<TRUE, PyInt(parsed[2])>>
             ELSE <<FALSE, PyNone>>
        ELSE <<FALSE, PyNone>>

\* get_port_from_file() on a sidecar holding f
get_port_from_file(f) ==
    IF Exists(f)
    THEN LET v == validate_port(Strip(f.text))
         IN  IF v[1] THEN v[2] ELSE PyNone
    ELSE PyNone

\* save_port_to_file(port) on a sidecar holding f: <<returned bool, file afterwards>>
save_port_to_file(port, f) ==
    LET v == validate_port(ToStr(port))
    IN  IF ~v[1] THEN <<FALSE, f>>
        ELSE <<TRUE, File(IntToStr(v[2].int))>>

\* ------------------------------------------------------------------ launcher
Chars(n) == IntToStr(n)

\* What the sidecar may hold before the program first runs.
InitPortFiles ==
    { NoFile, File(<<"a", "b", "c">>), File(Chars(1023)), File(Chars(65536)),
      File(Chars(65534)), File(<<" ", "1", "0", "2", "4", "\n">>) }

\* Arguments handed to save_port_to_file.
WriteArgs ==
    { PyInt(1023), PyInt(1024), PyInt(65536), PyNone, PyStr(<<" ", "8", "0", "8", "0", " ">>) }

\* Values the port field hands to save_port_settings.
SettingsArgs ==
    { PyInt(1023), PyInt(65535), PyNone, PyStr(<<"a", "b", "c">>) }

Running == [running |-> TRUE]

InitPortAt(f) ==
    /\ portFile = f
    /\ initPortFile = portFile
    /\ pc = "init"
    /\ preferred_port = DEFAULT_PORT
    /\ max_attempts = 1
    /\ attempt = 0
    /\ bound = {}
    /\ probes = <<>>
    /\ launched = <<>>
    /\ share = FALSE
    /\ result = Running
    /\ fileAtStart = portFile
    /\ runs = 0
    /\ call = [op |-> "none"]

InitPort ==
    /\ \E f \in InitPortFiles : InitPortAt(f)
    /\ phase = "port"
    /\ arg = PyNone
    /\ out = PyNone
    /\ configFile = NoFile
    /\ savedDoc = PyNone

\* main() -> safe_launch(demo, M): line 395, before the loop.  Any of the candidate
\* ports may be held by another listener, for the whole run.
Start(M) ==
    /\ phase = "port"
    /\ pc \in {"init", "launched", "share", "exit1"}
    /\ runs < MaxRuns
    /\ LET r == get_port_from_file(portFile)
           p == IF IsNone(r) THEN DEFAULT_PORT ELSE r.int
       IN  /\ preferred_port' = p
           /\ bound' \in SUBSET { c \in p .. (p + M - 1) : c <= PortMax }
    /\ max_attempts' = M
    /\ attempt' = 0
    /\ probes' = <<>>
    /\ launched' = <<>>
    /\ share' = FALSE
    /\ result' = Running
    /\ fileAtStart' = portFile
    /\ runs' = runs + 1
    /\ pc' = "attempt"
    /\ call' = [op |-> "start"]
    /\ UNCHANGED <<opVars, portFile, initPortFile>>

port == preferred_port + attempt

\* s.bind raises OverflowError for a port above 65535: not an OSError, so it
\* leaves safe_launch; main() logs it and calls sys.exit(1).
BindOverflow ==
    /\ pc = "attempt"
    /\ port > PortMax
    /\ probes' = Append(probes, port)
    /\ result' = Raised("OverflowError")
    /\ pc' = "exit1"
    /\ call' = [op |-> "bind"]
    /\ UNCHANGED <<opVars, portFile, initPortFile, preferred_port, max_attempts, attempt, bound,
                   launched, share, fileAtStart, runs>>

\* BindOk persisting the preferred port instead of the port it launched on.
BindOk_PersistsPreferred ==
    /\ pc = "attempt"
    /\ port <= PortMax
    /\ port \notin bound
    /\ probes' = Append(probes, port)
    /\ launched' = Append(launched, port)
    /\ portFile' = save_port_to_file(PyInt(preferred_port), portFile)[2]
    /\ result' = PyInt(port)
    /\ pc' = "launched"
    /\ call' = [op |-> "launch"]
    /\ UNCHANGED <<opVars, initPortFile, preferred_port, max_attempts, attempt, bound, share,
                   fileAtStart, runs>>

\* The probe succeeds: demo.launch(server_port=port), save_port_to_file(port), return port.
BindOk ==
    /\ pc = "attempt"
    /\ port <= PortMax
    /\ port \notin bound
    /\ probes' = Append(probes, port)
    /\ launched' = Append(launched, port)
    /\ portFile' = save_port_to_file(PyInt(port), portFile)[2]
    /\ result' = PyInt(port)
    /\ pc' = "launched"
    /\ call' = [op |-> "launch"]
    /\ UNCHANGED <<opVars, initPortFile, preferred_port, max_attempts, attempt, bound, share,
                   fileAtStart, runs>>

\* The probe raises OSError and attempts remain: next iteration.
BindBusyRetry ==
    /\ pc = "attempt"
    /\ port \in bound
    /\ attempt # max_attempts - 1
    /\ probes' = Append(probes, port)
    /\ attempt' = attempt + 1
    /\ call' = [op |-> "bind"]
    /\ UNCHANGED <<opVars, portFile, initPortFile, pc, preferred_port, max_attempts, bound,
                   launched, share, result, fileAtStart, runs>>

\* The probe raises OSError on the last attempt: demo.launch(share=True), return None.
BindBusyShare ==
    /\ pc = "attempt"
    /\ port \in bound
    /\ attempt = max_attempts - 1
    /\ probes' = Append(probes, port)
    /\ share' = TRUE
    /\ result' = PyNone
    /\ pc' = "share"
    /\ call' = [op |-> "bind"]
    /\ UNCHANGED <<opVars, portFile, initPortFile, preferred_port, max_attempts, attempt, bound,
                   launched, fileAtStart, runs>>

\* int(port) of the handler's argument: <<"ok", n>>, <<"ValueError", 0>>, <<"TypeError", 0>>.
int(v) ==
    IF IsInt(v) THEN <<"ok", v.int>>
    ELSE IF IsStr(v) THEN (IF ParseInt(v.str)[1] THEN <<"ok", ParseInt(v.str)[2]>>
                           ELSE <<"ValueError", 0>>)
    ELSE <<"TypeError", 0>>

\* save_port_settings(port) on a sidecar holding f: <<status, file afterwards>>
save_port_settings(v, f) ==
    LET i == int(v)
    IN  IF i[1] = "ok"
        THEN IF PortMin <= i[2] /\ i[2] <= PortMax
             THEN <<"saved", save_port_to_file(PyInt(i[2]), f)[2]>>
             ELSE <<"out-of-range", f>>
        ELSE <<i[1], f>>

\* The user presses the save-port button while the server runs.
SavePortSettings(v) ==
    /\ pc \in {"launched", "share"}
    /\ portFile' = save_port_settings(v, portFile)[2]
    /\ call' = [op |-> "settings", arg |-> v, ret |-> save_port_settings(v, portFile)[1],
                changed |-> save_port_settings(v, portFile)[2] # portFile]
    /\ UNCHANGED <<opVars, initPortFile, pc, preferred_port, max_attempts, attempt, bound, probes,
                   launched, share, result, fileAtStart, runs>>

\* A call of save_port_to_file with any argument.
SavePortToFile(v) ==
    /\ pc \in {"launched", "share"}
    /\ portFile' = save_port_to_file(v, portFile)[2]
    /\ call' = [op |-> "write", arg |-> v, ret |-> save_port_to_file(v, portFile)[1],
                changed |-> save_port_to_file(v, portFile)[2] # portFile]
    /\ UNCHANGED <<opVars, initPortFile, pc, preferred_port, max_attempts, attempt, bound, probes,
                   launched, share, result, fileAtStart, runs>>

NextPort ==
    \/ \E M \in 1..MaxAttempts : Start(M)
    \/ BindOverflow
    \/ BindOk
    \/ BindBusyRetry
    \/ BindBusyShare
    \/ \E v \in SettingsArgs : SavePortSettings(v)
    \/ \E v \in WriteArgs : SavePortToFile(v)

SpecPort == InitPort /\ [][NextPort]_vars

\* ------------------------------------------------------- launcher: properties
Terminated == pc \in {"launched", "share", "exit1"}

\* The attempts whose probe succeeds: the candidate is a port and nobody holds it.
FreeAttempts == { a \in 0 .. (max_attempts - 1) :
                    preferred_port + a <= PortMax /\ preferred_port + a \notin bound }

Least(S) == CHOOSE k \in S : \A j \in S : k <= j

Candidates(n) == [i \in 1..n |-> preferred_port + i - 1]

\* C1: safe_launch probes preferred, preferred+1, ... in increasing order, one at a
\* time; it ends having launched on preferred+k for the least k whose probe succeeds
\* (and on no other port), or, exactly when all max_attempts probes fail, having
\* started the server in share mode and returned None.
C1_LeastFreeOrRelay ==
    /\ probes = Candidates(Len(probes))
    /\ Terminated =>
         IF FreeAttempts # {}
         THEN LET k == Least(FreeAttempts)
              IN  /\ result = PyInt(preferred_port + k)
                  /\ launched = <<preferred_port + k>>
                  /\ ~share
                  /\ probes = Candidates(k + 1)
         ELSE /\ result = PyNone
              /\ share
              /\ launched = <<>>
              /\ probes = Candidates(max_attempts)

\* C10: for every preferred port in [1024,65535] the search ends, after at most
\* max_attempts probes, with a port returned or with None returned; no error
\* leaves safe_launch.
C10_NoErrorEscapes ==
    /\ Len(probes) <= max_attempts
    /\ Terminated => pc \in {"launched", "share"} /\ (IsInt(result) \/ IsNone(result))

\* One step of the launcher: launching on the probed port persists it; any
\* other step of safe_launch leaves the sidecar as the run found it.
C2_Step ==
    /\ (pc = "attempt" /\ pc' = "launched") =>
          /\ launched' = <<result'.int>>
          /\ result'.int \notin bound
          /\ Exists(portFile')
          /\ get_port_from_file(portFile') = result'
    /\ (pc = "attempt" /\ pc' # "launched") => portFile' = fileAtStart

\* C2: the step that launches the server on a probed port c leaves the sidecar
\* holding c (get_port_from_file returns c); every other step of safe_launch,
\* the share-mode fallback included, leaves the sidecar as the run found it.
C2_LaunchPersistsPort == [][C2_Step]_vars

\* C2 witness: the preferred port was held, the server runs on preferred+1 and the
\* sidecar reads back preferred+1.
C2_Witness ==
    /\ pc = "launched"
    /\ call.op = "launch"
    /\ preferred_port \in bound
    /\ result = PyInt(preferred_port + 1)
    /\ get_port_from_file(portFile) = PyInt(preferred_port + 1)
    /\ get_port_from_file(fileAtStart) # PyInt(preferred_port + 1)

\* The text is the plain decimal form of a port in [1024,65535].
IsDecimalPort(text) ==
    /\ text # <<>>
    /\ \A i \in 1..Len(text) : text[i] \in Digits
    /\ text[1] # "0"
    /\ DigitsVal(text, 0) >= 1024
    /\ DigitsVal(text, 0) <= 65535

\* C3: the sidecar holds its initial content or the decimal form of a port in
\* [1024,65535]; save_port_to_file with an integer outside the range returns False
\* and changes nothing; get_port_from_file returns a port only for an existing file
\* and only one in the range, and returns the port a decimal sidecar holds.
C3_SidecarLegal ==
    /\ portFile = initPortFile \/ (Exists(portFile) /\ IsDecimalPort(portFile.text))
    /\ (call.op = "write" /\ IsInt(call.arg) /\ (call.arg.int < 1024 \/ call.arg.int > 65535))
          => (call.ret = FALSE /\ ~call.changed)
    /\ (call.op = "write" /\ call.ret = FALSE) => ~call.changed
    /\ LET r == get_port_from_file(portFile)
       IN  /\ ~IsNone(r) => (Exists(portFile) /\ r.int >= 1024 /\ r.int <= 65535)
           /\ ~Exists(portFile) => IsNone(r)
           /\ (Exists(portFile) /\ IsDecimalPort(portFile.text))
                 => r = PyInt(DigitsVal(portFile.text, 0))

\* C3 witness: after the sidecar was rewritten, a write of 65536 was refused.
C3_Witness ==
    /\ call.op = "write"
    /\ call.arg = PyInt(65536)
    /\ call.ret = FALSE
    /\ ~call.changed
    /\ portFile # initPortFile
    /\ IsDecimalPort(portFile.text)

\* ------------------------------------------------------------- path cleaning
\* re.sub(r'^[\'"]|[\'"]$', '', s): drop a quote at the start and a quote at the end.
StripQuotes(s) ==
    LET a == IF s # <<>> /\ Head(s) \in Quotes THEN Tail(s) ELSE s
    IN  IF a # <<>> /\ a[Len(a)] \in Quotes THEN SubSeq(a, 1, Len(a) - 1) ELSE a

\* clean_path keeping the quote at the end.
clean_path_LeadingQuoteOnly(path_str) ==
    IF ~Truthy(path_str) THEN PyStr(<<>>)
    ELSE IF ~IsStr(path_str) THEN Raised("AttributeError")
    ELSE LET s == Strip(path_str.str)
         IN  PyStr(IF s # <<>> /\ Head(s) \in Quotes THEN Tail(s) ELSE s)

\* clean_path(path_str): "" for a falsy argument; a truthy argument that is not a
\* str has no strip() and raises AttributeError.
clean_path(path_str) ==
    IF ~Truthy(path_str) THEN PyStr(<<>>)
    ELSE IF ~IsStr(path_str) THEN Raised("AttributeError")
    ELSE PyStr(StripQuotes(Strip(path_str.str)))

Alphabet == {"'", "\"", " ", "a"}

RECURSIVE Strings(_)
Strings(n) ==
    IF n = 0 THEN {<<>>}
    ELSE Strings(n - 1) \cup { Append(s, c) : s \in { t \in Strings(n - 1) : Len(t) = n - 1 },
                                              c \in Alphabet }

InitClean ==
    /\ InitPortAt(NoFile)
    /\ phase = "clean"
    /\ arg \in { PyStr(s) : s \in Strings(MaxLen) }
    /\ out = <<>>
    /\ configFile = NoFile
    /\ savedDoc = PyNone

\* clean_path applied to the argument, then to its own result.
Clean ==
    /\ phase = "clean"
    /\ Len(out) < 2
    /\ out' = Append(out, clean_path(IF out = <<>> THEN arg ELSE out[Len(out)]))
    /\ UNCHANGED <<portVars, phase, arg, configFile, savedDoc>>

NextClean == Clean

SpecClean == InitClean /\ [][NextClean]_vars

\* s is c wrapped in one layer: whitespace around it, and inside the whitespace
\* either one matching pair of quotes around c (c not itself beginning or ending
\* with a quote), or c itself, beginning and ending with an ordinary character.
IsLayer(s, a, b) ==
    LET c == SubSeq(s, a, b)
        q == a - 1
        r == b + 1
        OuterWs(i, j) == /\ \A k \in 1..(i - 1) : s[k] \in Whitespace
                         /\ \A k \in (j + 1)..Len(s) : s[k] \in Whitespace
        NoQuoteEnds == c = <<>> \/ (c[1] \notin Quotes /\ c[Len(c)] \notin Quotes)
        Plain == c = <<>> \/ (c[1] \notin Quotes \cup Whitespace
                              /\ c[Len(c)] \notin Quotes \cup Whitespace)
    IN  \/ /\ q >= 1 /\ r <= Len(s) /\ q < r
           /\ s[q] \in Quotes /\ s[r] = s[q]
           /\ NoQuoteEnds
           /\ OuterWs(q, r)
        \/ /\ Plain
           /\ OuterWs(a, b)

CoresOf(s) == { SubSeq(s, ab[1], ab[2]) :
                  ab \in { xy \in (1..(Len(s) + 1)) \X (0..Len(s)) :
                             xy[2] >= xy[1] - 1 /\ IsLayer(s, xy[1], xy[2]) } }

Bare(c) == c = <<>> \/ (c[1] \notin Quotes \cup Whitespace /\ c[Len(c)] \notin Quotes \cup Whitespace)

Dirs  == { <<"/fonts">>, <<"/bin">>, <<"/out">>, <<"/subs">>, <<"/cwd">>, <<"fonts">>,
           <<"/cwd/fonts">> }
Files == { <<"/subs/a.ass">>, <<"/subs/B.ASS">>, <<"/subs/c.txt">>, <<"b.ass">>,
           <<"/cwd/b.ass">> }

\* Path(p).is_dir(), os.path.isfile(p)
is_dir(p) == p \in Dirs
isfile(p) == p \in Files

\* Path(p).resolve() of an existing path
resolve(p) ==
    IF p = <<"fonts">> THEN <<"/cwd/fonts">>
    ELSE IF p = <<"b.ass">> THEN <<"/cwd/b.ass">>
    ELSE p

\* p.lower().endswith('.ass')
EndsWithAss(p) ==
    p # <<>> /\ p[Len(p)] \in {"/subs/a.ass", "/subs/B.ASS", "b.ass", "/cwd/b.ass", "/gone.ass"}

\* os.path.dirname(p) of an existing file
dirname(p) ==
    IF p \in {<<"/subs/a.ass">>, <<"/subs/B.ASS">>, <<"/subs/c.txt">>} THEN <<"/subs">>
    ELSE IF p = <<"/cwd/b.ass">> THEN <<"/cwd">>
    ELSE <<>>

\* os.path.join(d, name)
join(d, name) == IF d = <<>> THEN <<name>> ELSE d \o <<"/", name>>

MSG_EMPTY   == <<"path must not be empty">>
MSG_NOT_DIR == <<"path is not a valid directory">>

\* validate_dir_path(path_str) -> (bool, str): [ok, val] is the returned pair;
\* clean_path is called outside the try, so its AttributeError propagates.
validate_dir_path(path_str) ==
    LET c == clean_path(path_str)
    IN  IF IsRaised(c) THEN c
        ELSE IF c.str = <<>> THEN [ok |-> FALSE, val |-> PyStr(MSG_EMPTY)]
        ELSE IF is_dir(c.str) THEN [ok |-> TRUE, val |-> PyStr(resolve(c.str))]
        ELSE [ok |-> FALSE, val |-> PyStr(MSG_NOT_DIR)]

\* ------------------------------------------------------------ process invoker
EXE == <<"./AssFontSubset.Console">>

Cleaned(l) == [i \in 1..Len(l) |-> clean_path(l[i])]

\* The filter loop without the os.path.isfile test.
valid_inputs_NoIsfile(l) ==
    LET IsValid(c) == EndsWithAss(c.str)
    IN  [ j \in 1..Len(SelectSeq(Cleaned(l), IsValid)) |-> SelectSeq(Cleaned(l), IsValid)[j].str ]

\* The filter loop (lines 169-173) over a list whose entries clean_path accepts:
\* the cleaned entries that end in .ass and are regular files, in order.
valid_inputs(l) ==
    LET IsValid(c) == EndsWithAss(c.str) /\ isfile(c.str)
    IN  [ j \in 1..Len(SelectSeq(Cleaned(l), IsValid)) |-> SelectSeq(Cleaned(l), IsValid)[j].str ]

\* The assembly with --bin-path put before --subset-backend.
assemble_cmd_BinPathFirst(valid, final_output_dir, a) ==
    LET font == validate_dir_path(a.font_dir)
        bin  == validate_dir_path(a.bin_path)
    IN  <<EXE>> \o valid
        \o (IF final_output_dir # <<>> THEN <<<<"--output">>, final_output_dir>> ELSE <<>>)
        \o (IF Truthy(a.font_dir) /\ font.ok THEN <<<<"--fonts">>, font.val.str>> ELSE <<>>)
        \o (IF Truthy(a.bin_path) /\ Strip(a.bin_path.str) # <<>> /\ bin.ok
            THEN <<<<"--bin-path">>, bin.val.str>> ELSE <<>>)
        \o (IF a.subset_backend # PyStr(<<"PyFontTools">>)
            THEN <<<<"--subset-backend">>, a.subset_backend.str>> ELSE <<>>)
        \o (IF ~a.source_han_ellipsis THEN <<<<"--no-source-han-ellipsis">>>> ELSE <<>>)
        \o (IF a.debug THEN <<<<"--debug">>>> ELSE <<>>)

\* Lines 188-211: the argument vector, a sequence of strings.
assemble_cmd(valid, final_output_dir, a) ==
    LET font == validate_dir_path(a.font_dir)
        bin  == validate_dir_path(a.bin_path)
    IN  <<EXE>> \o valid
        \o (IF final_output_dir # <<>> THEN <<<<"--output">>, final_output_dir>> ELSE <<>>)
        \o (IF Truthy(a.font_dir) /\ font.ok THEN <<<<"--fonts">>, font.val.str>> ELSE <<>>)
        \o (IF a.subset_backend # PyStr(<<"PyFontTools">>)
            THEN <<<<"--subset-backend">>, a.subset_backend.str>> ELSE <<>>)
        \o (IF Truthy(a.bin_path) /\ Strip(a.bin_path.str) # <<>> /\ bin.ok
            THEN <<<<"--bin-path">>, bin.val.str>> ELSE <<>>)
        \o (IF ~a.source_han_ellipsis THEN <<<<"--no-source-han-ellipsis">>>> ELSE <<>>)
        \o (IF a.debug THEN <<<<"--debug">>>> ELSE <<>>)

Report(kind, cmd, spawned, made) ==
    [report |-> kind, cmd |-> cmd, spawned |-> spawned, made |-> made]

\* run_assfontsubset(...) with the external process ending as `exit` says:
\* "zero", "nonzero" (CalledProcessError) or "missing" (the executable is not there).
run_assfontsubset(a, exit) ==
    IF ~IsList(a.input_paths)
    THEN Report("exception", <<>>, FALSE, {})          \* iterating None: TypeError
    ELSE IF \E i \in 1..Len(a.input_paths.list) : IsRaised(clean_path(a.input_paths.list[i]))
    THEN Report("exception", <<>>, FALSE, {})
    ELSE LET valid == valid_inputs(a.input_paths.list)
         IN  IF valid = <<>>
             THEN Report("no valid input files", <<>>, FALSE, {})
             ELSE LET final_output_dir ==
                          IF ~Truthy(a.output_dir) \/ Strip(a.output_dir.str) = <<>>
                          THEN join(dirname(valid[1]), "output")
                          ELSE a.output_dir.str
                      made == IF is_dir(final_output_dir) THEN {} ELSE {final_output_dir}
                      cmd  == assemble_cmd(valid, final_output_dir, a)
                  IN  IF isfile(final_output_dir)
                      THEN Report("exception", <<>>, FALSE, {})   \* os.makedirs: FileExistsError
                      ELSE IF exit = "zero" THEN Report("success", cmd, TRUE, made)
                      ELSE IF exit = "nonzero" THEN Report("failed", cmd, TRUE, made)
                      ELSE Report("exception", cmd, FALSE, made)

InputSamples ==
    { PyStr(<<"/subs/a.ass">>), PyStr(<<"'", "/subs/B.ASS", "'">>), PyStr(<<"/subs/c.txt">>),
      PyStr(<<"/gone.ass">>), PyStr(<<"b.ass">>) }

RECURSIVE Lists(_, _)
Lists(S, n) ==
    IF n = 0 THEN {<<>>}
    ELSE Lists(S, n - 1) \cup { Append(l, x) : l \in { t \in Lists(S, n - 1) : Len(t) = n - 1 },
                                               x \in S }

RunArgs ==
    [ input_paths : { PyList(l) : l \in Lists(InputSamples, MaxInputs) } \cup {PyNone},
      output_dir : { PyStr(<<>>), PyStr(<<"/out">>), PyStr(<<"/subs/c.txt">>) },
      font_dir : { PyStr(<<>>), PyStr(<<"fonts">>), PyStr(<<"/gone">>) },
      subset_backend : { PyStr(<<"PyFontTools">>), PyStr(<<"HarfBuzzSubset">>) },
      bin_path : { PyStr(<<" ">>), PyStr(<<"\"", "/bin", "\"">>), PyStr(<<"/gone">>) },
      source_han_ellipsis : BOOLEAN,
      debug : BOOLEAN ]

InitRun ==
    /\ InitPortAt(NoFile)
    /\ phase = "run"
    /\ arg \in RunArgs
    /\ out = PyNone
    /\ configFile = NoFile
    /\ savedDoc = PyNone

\* The user presses the run button.
Run(exit) ==
    /\ phase = "run"
    /\ out = PyNone
    /\ out' = run_assfontsubset(arg, exit)
    /\ UNCHANGED <<portVars, phase, arg, configFile, savedDoc>>

NextRun == \E exit \in {"zero", "nonzero", "missing"} : Run(exit)

SpecRun == InitRun /\ [][NextRun]_vars

Ran == phase = "run" /\ out # PyNone

\* An entry of the list names a subtitle file: it ends in .ass and is a regular file.
RawValid(e)     == IsStr(e) /\ EndsWithAss(e.str) /\ isfile(e.str)
CleanedValid(e) == IsStr(e) /\ EndsWithAss(clean_path(e).str) /\ isfile(clean_path(e).str)

\* C7 as stated: a run over a list none of whose entries is an existing regular
\* .ass file reports "no valid input files", spawns nothing and creates nothing.
C7_NoValidEntryNoSpawn ==
    (Ran /\ IsList(arg.input_paths)
         /\ \A i \in 1..Len(arg.input_paths.list) : ~RawValid(arg.input_paths.list[i]))
      => (out.report = "no valid input files" /\ ~out.spawned /\ out.made = {})

\* C7 amended: a run over a list none of whose entries, once clean_path has
\* stripped surrounding whitespace and quotes, is an existing regular .ass file
\* reports "no valid input files", spawns nothing and creates no directory; and
\* whenever a process is spawned some entry passed that filter.
C7_NoCleanedValidNoSpawn ==
    Ran =>
      /\ (IsList(arg.input_paths)
            /\ \A i \in 1..Len(arg.input_paths.list) : ~CleanedValid(arg.input_paths.list[i]))
           => (out.report = "no valid input files" /\ ~out.spawned /\ out.made = {}
               /\ out.cmd = <<>>)
      /\ (out.spawned \/ out.made # {}) =>
            (IsList(arg.input_paths)
               /\ \E i \in 1..Len(arg.input_paths.list) : CleanedValid(arg.input_paths.list[i]))

\* C7 witness: a list of a missing .ass file and an existing non-.ass file was
\* refused, with an output directory given that does not exist yet.
C7_Witness ==
    /\ Ran
    /\ arg.input_paths = PyList(<<PyStr(<<"/gone.ass">>), PyStr(<<"/subs/c.txt">>)>>)
    /\ out.report = "no valid input files"
    /\ ~out.spawned
    /\ out.made = {}

Opt(name) == <<name>>

\* The entries that pass the filter, cleaned, in the order supplied.
PassedInputs ==
    LET l == arg.input_paths.list
    IN  [ j \in 1..Len(SelectSeq(l, CleanedValid)) |-> clean_path(SelectSeq(l, CleanedValid)[j]).str ]

\* The output directory given, or <directory of the first passed input>/output.
ResolvedOutputDir ==
    IF Strip(arg.output_dir.str) # <<>> THEN arg.output_dir.str
    ELSE join(dirname(PassedInputs[1]), "output")

\* C8: the argument vector is the executable, the valid inputs in the order
\* supplied, --output <dir>, then --fonts <dir> iff font_dir validates as a
\* directory, --subset-backend <b> iff b is not PyFontTools, --bin-path <dir> iff
\* bin_path is non-blank and validates as a directory, --no-source-han-ellipsis
\* iff source_han_ellipsis is false, --debug iff debug is true, and nothing else.
C8_ArgumentVector ==
    (Ran /\ out.cmd # <<>>) =>
        LET font == validate_dir_path(arg.font_dir)
            bin  == validate_dir_path(arg.bin_path)
            F == IF font.ok THEN <<Opt("--fonts"), font.val.str>> ELSE <<>>
            S == IF arg.subset_backend.str # <<"PyFontTools">>
                 THEN <<Opt("--subset-backend"), arg.subset_backend.str>> ELSE <<>>
            B == IF Strip(arg.bin_path.str) # <<>> /\ bin.ok
                 THEN <<Opt("--bin-path"), bin.val.str>> ELSE <<>>
            E == IF arg.source_han_ellipsis = FALSE THEN <<Opt("--no-source-han-ellipsis")>>
                 ELSE <<>>
            D == IF arg.debug = TRUE THEN <<Opt("--debug")>> ELSE <<>>
        IN  out.cmd = <<EXE>> \o PassedInputs \o <<Opt("--output"), ResolvedOutputDir>>
                        \o F \o S \o B \o E \o D

\* C8 witness: two inputs, every optional argument present.
C8_Witness ==
    /\ Ran
    /\ arg.subset_backend = PyStr(<<"HarfBuzzSubset">>)
    /\ out.cmd = << EXE, <<"/subs/B.ASS">>, <<"/subs/a.ass">>,
                    Opt("--output"), <<"/out">>,
                    Opt("--fonts"), <<"/cwd/fonts">>,
                    Opt("--subset-backend"), <<"HarfBuzzSubset">>,
                    Opt("--bin-path"), <<"/bin">>,
                    Opt("--no-source-han-ellipsis"), Opt("--debug") >>

\* ---------------------------------------------------------------------- JSON
\* A JSON text is kept as the value it denotes; Garbage is a text json.load rejects.
JNull      == [jnull |-> TRUE]
JBool(b)   == [jbool |-> b]
JNum(n)    == [jnum |-> n]
JStr(s)    == [jstr |-> s]
JArr(l)    == [jarr |-> l]
JObj(f)    == [jobj |-> f]
Garbage    == [garbage |-> TRUE]

\* json.dump(v): None -> null, bool, int, str, list -> array, dict -> object.
RECURSIVE json_dump(_)
json_dump(v) ==
    IF IsNone(v) THEN JNull
    ELSE IF IsBool(v) THEN JBool(v.bool)
    ELSE IF IsInt(v) THEN JNum(v.int)
    ELSE IF IsStr(v) THEN JStr(v.str)
    ELSE IF IsList(v) THEN JArr([i \in 1..Len(v.list) |-> json_dump(v.list[i])])
    ELSE JObj([k \in DOMAIN v.dict |-> json_dump(v.dict[k])])

\* json.load(text): the Python value, or JSONDecodeError.
RECURSIVE json_load(_)
json_load(j) ==
    IF "garbage" \in DOMAIN j THEN Raised("JSONDecodeError")
    ELSE IF "jnull" \in DOMAIN j THEN PyNone
    ELSE IF "jbool" \in DOMAIN j THEN PyBool(j.jbool)
    ELSE IF "jnum" \in DOMAIN j THEN PyInt(j.jnum)
    ELSE IF "jstr" \in DOMAIN j THEN PyStr(j.jstr)
    ELSE IF "jarr" \in DOMAIN j THEN PyList([i \in 1..Len(j.jarr) |-> json_load(j.jarr[i])])
    ELSE PyDict([k \in DOMAIN j.jobj |-> json_load(j.jobj[k])])

\* -------------------------------------------------------------- config store
Keys == {"input_paths", "output_dir", "font_dir", "subset_backend", "bin_path",
         "source_han_ellipsis", "debug", "server_port"}

DEFAULT_CONFIG ==
    [ input_paths |-> PyList(<<>>), output_dir |-> PyStr(<<>>), font_dir |-> PyStr(<<>>),
      subset_backend |-> PyStr(<<"PyFontTools">>), bin_path |-> PyStr(<<>>),
      source_han_ellipsis |-> PyBool(TRUE), debug |-> PyBool(FALSE),
      server_port |-> PyInt(DEFAULT_PORT) ]

\* Lines 121-132: the value load_config stores for a recognized key, Raised(e) when
\* validation raises; cur is the value the key holds so far (its default).
load_value(key, value, cur) ==
    IF key \in {"output_dir", "font_dir", "bin_path"}
    THEN IF key = "output_dir"
         THEN (IF ~IsNone(value) THEN value ELSE PyStr(<<>>))
         ELSE LET v == validate_dir_path(value)
              IN  IF IsRaised(v) THEN v
                  ELSE IF Truthy(v.val) THEN v.val ELSE cur
    ELSE IF key = "input_paths" /\ IsList(value)
    THEN LET l == value.list
             Kept(e) == Truthy(validate_dir_path(e).val)
         IN  IF \E i \in 1..Len(l) : IsRaised(validate_dir_path(l[i]))
             THEN Raised("AttributeError")
             ELSE PyList([ i \in 1..Len(SelectSeq(l, Kept)) |->
                             validate_dir_path(SelectSeq(l, Kept)[i]).val ])
    ELSE value

LOAD_ERROR == PyStr(<<"load error: ", "exception text">>)

\* load_config(path) on a file f at that path: [config, error]
load_config(f) ==
    IF ~Exists(f) THEN [config |-> DEFAULT_CONFIG, error |-> PyNone]
    ELSE LET config == json_load(f.text)
         IN  IF IsRaised(config) THEN [config |-> DEFAULT_CONFIG, error |-> LOAD_ERROR]
             ELSE IF ~IsDict(config) THEN [config |-> DEFAULT_CONFIG, error |-> PyNone]
             ELSE LET d == config.dict
                      known == DOMAIN d \cap Keys
                      valid_config ==
                          [ k \in Keys |-> IF k \in known
                                           THEN load_value(k, d[k], DEFAULT_CONFIG[k])
                                           ELSE DEFAULT_CONFIG[k] ]
                  IN  IF \E k \in Keys : IsRaised(valid_config[k])
                      THEN [config |-> DEFAULT_CONFIG, error |-> LOAD_ERROR]
                      ELSE [config |-> valid_config, error |-> PyNone]

EndsWithJson(name) == name # <<>> /\ name[Len(name)] \in {"cfg.json", ".json"}

\* generate_default_filename()
generate_default_filename == <<"assfont_config_", "YYYYMMDD_HHMMSS", ".json">>

\* save_config(save_dir, filename, config) onto the file f: [ok, file]
save_config(save_dir, filename, config, f) ==
    LET v == validate_dir_path(save_dir)
    IN  IF IsRaised(v) \/ ~v.ok THEN [ok |-> FALSE, file |-> f]
        ELSE LET name == IF Strip(filename) = <<>> THEN generate_default_filename
                         ELSE IF ~EndsWithJson(filename) THEN filename \o <<".json">>
                         ELSE filename
             IN  [ ok   |-> TRUE,
                   file |-> [ path |-> v.val.str \o <<"/">> \o name,
                              text |-> json_dump(PyDict(config)) ] ]

\* Values a hand-written config file may give each key ("theme" is not a key of
\* the schema).
MemberKeys == <<"input_paths", "output_dir", "font_dir", "bin_path", "subset_backend",
                "source_han_ellipsis", "debug", "server_port", "theme">>

MemberSamples(k) ==
    CASE k = "input_paths" ->
            { JArr(<<>>), JArr(<<JStr(<<"/subs/a.ass">>)>>),
              JArr(<<JStr(<<"/subs">>), JStr(<<"/gone">>)>>), JStr(<<"/subs">>),
              JArr(<<JNum(5)>>) }
      [] k = "output_dir" -> { JStr(<<>>), JStr(<<"/out">>), JStr(<<"gone/dir">>), JNull }
      [] k = "font_dir" ->
            { JStr(<<>>), JStr(<<"/fonts">>), JStr(<<"fonts">>), JStr(<<"/gone">>), JNum(5),
              JNull }
      [] k = "bin_path" -> { JStr(<<"\"", "/bin", "\"">>), JStr(<<"/subs/c.txt">>) }
      [] k = "subset_backend" -> { JStr(<<"HarfBuzzSubset">>) }
      [] k = "source_han_ellipsis" -> { JBool(FALSE) }
      [] k = "debug" -> { JBool(TRUE) }
      [] k = "server_port" -> { JNum(8080), JNum(80) }
      [] OTHER -> { JStr(<<"dark">>) }

\* The objects with at most n members, keys taken from ks.
RECURSIVE Objects(_, _)
Objects(ks, n) ==
    IF ks = <<>> THEN { <<>> }
    ELSE Objects(Tail(ks), n)
           \cup (IF n = 0 THEN {}
                 ELSE { (Head(ks) :> v) @@ g : v \in MemberSamples(Head(ks)),
                                                g \in Objects(Tail(ks), n - 1) })

HandWritten ==
    { Garbage, JNull, JNum(5), JStr(<<"/fonts">>), JArr(<<>>),
      JArr(<<JObj(("font_dir" :> JStr(<<"/fonts">>)))>>) }
      \cup { JObj(f) : f \in Objects(MemberKeys, MaxMembers) }

\* The documents the form can hand to save_config.
FormDocs ==
    [ input_paths : { PyList(l) : l \in Lists({PyStr(<<"/subs/a.ass">>), PyStr(<<"/subs">>)},
                                              MaxInputs) } \cup {PyNone},
      output_dir : { PyStr(<<>>), PyStr(<<"/out">>) },
      font_dir : { PyStr(<<>>), PyStr(<<"/fonts">>), PyStr(<<"/gone">>) },
      subset_backend : { PyStr(<<"PyFontTools">>), PyStr(<<"HarfBuzzSubset">>) },
      bin_path : { PyStr(<<>>), PyStr(<<"/bin">>) },
      source_han_ellipsis : { PyBool(TRUE), PyBool(FALSE) },
      debug : { PyBool(TRUE), PyBool(FALSE) },
      server_port : { PyInt(8080) } ]

InitConfig ==
    /\ InitPortAt(NoFile)
    /\ phase = "config"
    /\ arg = [op |-> "none"]
    /\ out = PyNone
    /\ configFile = NoFile
    /\ savedDoc = PyNone

\* The working directory starts without a config file; the user puts one of their
\* own in place (or leaves none).
WriteByHand(f) ==
    /\ phase = "config"
    /\ arg.op = "none"
    /\ configFile' = f
    /\ savedDoc' = PyNone
    /\ arg' = [op |-> "edit"]
    /\ out' = PyNone
    /\ UNCHANGED <<portVars, phase>>

\* handle_save_config: the form's values, as one document, through save_config.
HandleSaveConfig(save_dir, filename, doc) ==
    /\ phase = "config"
    /\ arg.op = "none"
    /\ LET r == save_config(save_dir, filename, doc, configFile)
       IN  /\ configFile' = r.file
           /\ savedDoc' = IF r.ok THEN doc ELSE savedDoc
           /\ out' = [ok |-> r.ok]
    /\ arg' = [op |-> "save", dir |-> save_dir, filename |-> filename]
    /\ UNCHANGED <<portVars, phase>>

\* handle_load_config -> load_config on the file in place.
LoadConfig ==
    /\ phase = "config"
    /\ arg.op # "load"
    /\ arg' = [op |-> "load"]
    /\ out' = load_config(configFile)
    /\ UNCHANGED <<portVars, phase, configFile, savedDoc>>

NextConfig ==
    \/ \E j \in HandWritten : WriteByHand([path |-> <<"/cwd/config.json">>, text |-> j])
    \/ WriteByHand(NoFile)
    \/ \E save_dir \in {PyStr(<<"/out">>), PyStr(<<"/gone">>)} :
         \E filename \in {<<>>, <<"cfg">>, <<"cfg.json">>} :
           \E doc \in FormDocs : HandleSaveConfig(save_dir, filename, doc)
    \/ LoadConfig

SpecConfig == InitConfig /\ [][NextConfig]_vars

Loaded == phase = "config" /\ arg.op = "load"

\* C4: load_config on a file that exists and does not hold a JSON object returns
\* the all-defaults document together with a non-empty error.
C4_CorruptFileReported ==
    (Loaded /\ Exists(configFile) /\ "jobj" \notin DOMAIN configFile.text)
      => (out.config = DEFAULT_CONFIG /\ IsStr(out.error) /\ out.error.str # <<>>)

AbsDirs  == { <<"/fonts">>, <<"/bin">>, <<"/out">>, <<"/subs">>, <<"/cwd">>, <<"/cwd/fonts">> }
AbsFiles == { <<"/subs/a.ass">>, <<"/subs/B.ASS">>, <<"/subs/c.txt">>, <<"/cwd/b.ass">> }

EmptyOrAbsDir(v) == IsStr(v) /\ (v.str = <<>> \/ v.str \in AbsDirs)

\* A document as the data model describes it: input_paths a list of existing
\* subtitle files, each directory field empty or an absolute existing directory.
WellFormed(d) ==
    /\ IsList(d.input_paths)
    /\ \A i \in 1..Len(d.input_paths.list) :
          IsStr(d.input_paths.list[i]) /\ d.input_paths.list[i].str \in AbsFiles
          /\ EndsWithAss(d.input_paths.list[i].str)
    /\ EmptyOrAbsDir(d.output_dir)
    /\ EmptyOrAbsDir(d.font_dir)
    /\ EmptyOrAbsDir(d.bin_path)

\* C5: loading the file save_config wrote for a document d returns, with no
\* error, a document equal to d on every recognized field.
C5_SaveLoadRoundTrip ==
    (Loaded /\ savedDoc # PyNone /\ WellFormed(savedDoc))
      => (out.error = PyNone /\ \A k \in Keys : out.config[k] = savedDoc[k])

\* C6: in every document load_config returns, output_dir, font_dir and bin_path
\* are empty or absolute existing directories, and input_paths is a list of
\* absolute existing paths.
C6_LoadedPathsValid ==
    Loaded =>
      /\ EmptyOrAbsDir(out.config.output_dir)
      /\ EmptyOrAbsDir(out.config.font_dir)
      /\ EmptyOrAbsDir(out.config.bin_path)
      /\ IsList(out.config.input_paths)
      /\ \A i \in 1..Len(out.config.input_paths.list) :
            /\ IsStr(out.config.input_paths.list[i])
            /\ out.config.input_paths.list[i].str \in AbsDirs \cup AbsFiles

\* ------------------------------------------------------------ the whole model
\* One behaviour exercises one component; phase tells which.
Init == InitPort \/ InitClean \/ InitRun \/ InitConfig

Next == NextPort \/ NextClean \/ NextRun \/ NextConfig

Spec == Init /\ [][Next]_vars

====
